---------------------------- MODULE Spec2Model ----------------------------
(***************************************************************************)
(* Stream2Frame: the frame-sampling and stitching pipeline.                *)
(*                                                                         *)
(*   src/src/nvr.py   rename_mp4_files, concat_videos, find_file_pairs,    *)
(*                    process_frame_data, extract_frames_to_video_and_csv, *)
(*                    extract_frames_fallback, transfer_data_local_remote  *)
(*   src/src/main.py  main(): the per-camera loop that drives them         *)
(*                                                                         *)
(* Eight specifications share this module.  SamplerSpec applies the pure   *)
(* function process_frame_data to every timestamp log within the bounds.   *)
(* ExtractorSpec makes one call of one of the two extractors.  RenameSpec  *)
(* is one iteration of rename_mp4_files, NormalizerSpec runs it over a     *)
(* directory, ConcatSpec runs concat_videos over a directory.  CamerasSpec *)
(* is main() over the list of cameras, with the camera-day run as one      *)
(* step.  Spec is one camera-day run, one iteration of main()'s second     *)
(* loop: the file pairs are found, processed in order, then the run is     *)
(* finalized; FairSpec is Spec with fairness.                              *)
(***************************************************************************)
EXTENDS Integers, Sequences, FiniteSets, TLC

VARIABLES
    \* ---- SamplerSpec: one call of process_frame_data
    series,          \* the timestamp log handed to process_frame_data
    sampled,         \* what the call produced (NotCalled before the call)
    \* ---- ExtractorSpec: one call of an extractor
    job,             \* the arguments and the environment of the call
    done,            \* what the call handed back (NotRun before the call)
    \* ---- RenameSpec: one iteration of rename_mp4_files
    entry,           \* the directory entry the loop is looking at
    renamed,         \* what the iteration did with it (NotVisited before)
    \* ---- NormalizerSpec, ConcatSpec: the video files of a source directory
    folder,          \* the files of src_dir: name, byte size, content
    norm,            \* history: the latest run of rename_mp4_files or
                     \*          concat_videos over the directory
    \* ---- CamerasSpec: main() over the list of cameras
    cams,            \* what happens to each camera of the list
    progress,        \* position in main()'s two loops and what they did
    \* ---- Spec: one camera of main()'s loop `for camera_name, _ in cams`
    pc,              \* position inside the loop body
    file_pairs,      \* main.py:94  what find_file_pairs returned
    nFiles,          \* len(file_pairs)
    fileIdx,         \* position in `for mp4_file, txt_infofile in file_pairs`
    cur,             \* the timestamp log of the file pair being processed
    parsed,          \* (frame_numbers, frame_dates) returned by line 114
    fn,              \* main.py:100  running output frame counter
    video_writer,    \* main.py:101  None or the cv2.VideoWriter object
    frame_width,     \* main.py:102
    frame_height,    \* main.py:102
    all_frame_data,  \* main.py:103  rows collected for the table
    outVideo,        \* frames the output writer has put into the video file
    csvFile,         \* the table file of the camera-day (NoCsv until written)
    attempts,        \* history: the file pairs the loop has taken up, in order,
                     \*          with the path that handled each
    calls,           \* history: the calls main() made for the latest file pair
    stats            \* history: counters of finalization steps and decoded frames

samplerVars == <<series, sampled>>
extractorVars == <<job, done>>
renameVars == <<entry, renamed>>
dirVars == <<folder, norm>>
camVars == <<cams, progress>>
funcVars == <<series, sampled, job, done, entry, renamed, folder, norm, cams, progress>>
runVars == <<pc, file_pairs, nFiles, fileIdx, cur, parsed, fn, video_writer, frame_width,
             frame_height, all_frame_data, outVideo, csvFile, attempts, calls, stats>>
vars == <<series, sampled, job, done, entry, renamed, folder, norm, cams, progress, pc, file_pairs, nFiles, fileIdx, cur, parsed, fn, video_writer,
          frame_width, frame_height, all_frame_data, outVideo, csvFile, attempts,
          calls, stats>>

---------------------------------------------------------------------------
(* Bounds of the model *)

\* longest timestamp log (data rows) SamplerSpec enumerates
MaxRows == 3
\* file pairs of one camera-day
MaxFiles == 3
\* samples handed to one call of the primary extractor
MaxSamples == 2
\* pieces of the longest path rename_mp4_files is given
MaxPieces == 4
\* files in a source directory
MaxEntries == 3
\* runs of the normalizer over one directory
MaxRuns == 2
\* cameras in the list main() works through
MaxCams == 2

---------------------------------------------------------------------------
(* Program constants *)

\* timedelta(hours=1, minutes=59, seconds=59), in seconds
OffsetSeconds == 7199
\* resample('2min'), in seconds
IntervalSeconds == 120
\* interval_minutes default of extract_frames_fallback
IntervalMinutes == 2
\* the NaN that resample().first() puts into an empty bin
NaN == -1

\* frame_width, frame_height = None, None
NoSize == -1

---------------------------------------------------------------------------
(* Sequence helpers *)

Range(s) == {s[i] : i \in DOMAIN s}

SetMin(S) == CHOOSE x \in S : \A y \in S : x <= y

SetMax(S) == CHOOSE x \in S : \A y \in S : x >= y

---------------------------------------------------------------------------
(* Timestamp logs                                                          *)
(*                                                                         *)
(* A log is [kind, cts]: kind "rows" is a readable file whose data rows    *)
(* carry the capture times cts (seconds since a midnight), in file order;  *)
(* "norows" is a readable file with the header and no data row;            *)
(* "unreadable" is a file that is missing or cannot be read; "badts" is a  *)
(* file whose CTS column pd.to_datetime cannot parse.                      *)

\* capture times the enumerated logs use. With the offset added they fall
\* into the 2-minute bins 59, 60, 60, 61, 62 and 63: two rows can share a bin,
\* follow in adjacent bins, or leave bins empty between them
RawTimes == {0, 1, 90, 130, 245, 400}

SeqsUpTo(S, n) == UNION {[1..k -> S] : k \in 0..n}

NonDecreasing(s) == \A i \in 1..(Len(s) - 1) : s[i] <= s[i + 1]

RowLogs(n) == {[kind |-> "rows", cts |-> s] : s \in {t \in SeqsUpTo(RawTimes, n) : Len(t) > 0 /\ NonDecreasing(t)}}

\* logs whose rows are not in time order: read_csv and to_datetime accept
\* them, and nothing in process_frame_data sorts or checks the rows
UnorderedLogs(n) == {[kind |-> "rows", cts |-> s] : s \in {t \in SeqsUpTo(RawTimes, n) : ~NonDecreasing(t)}}

FailingLogs == {[kind |-> k, cts |-> <<>>] : k \in {"unreadable", "badts"}}

EmptyLog == [kind |-> "norows", cts |-> <<>>]

\* the log with rows at 00:00:00, 00:01:30, 00:02:10 and 00:04:05
ScenarioLog == [kind |-> "rows", cts |-> <<0, 90, 130, 245>>]

AllLogs == RowLogs(MaxRows) \cup UnorderedLogs(MaxRows) \cup FailingLogs \cup {EmptyLog, ScenarioLog}

---------------------------------------------------------------------------
(* process_frame_data, nvr.py:220-249 *)

\* AddOffset with the correction left out
AddOffset_none(cts) == cts

\* line 236: df['CTS'] + timedelta(hours=1, minutes=59, seconds=59)
AddOffset(cts) == [i \in DOMAIN cts |-> cts[i] + OffsetSeconds]

\* the 2-minute bin resample('2min') puts a corrected time into
BinOf(t) == t \div IntervalSeconds

\* .first() of one bin: the frame value of the earliest row of the bin (rows
\* with equal times keep file order), NaN for a bin with no row
FirstOfBin(ts, b) ==
    LET rows == {i \in DOMAIN ts : BinOf(ts[i]) = b}
    IN  IF rows = {} THEN NaN
        ELSE (CHOOSE i \in rows : \A j \in rows : ts[i] < ts[j] \/ (ts[i] = ts[j] /\ i <= j)) - 1

\* line 244, df['frame'].resample('2min').first(): one entry per bin from the
\* bin of the earliest time to the bin of the latest, empty bins included
ResampleFirst(ts) ==
    IF ts = <<>> THEN <<>>
    ELSE LET lo == SetMin({BinOf(ts[i]) : i \in DOMAIN ts})
             hi == SetMax({BinOf(ts[i]) : i \in DOMAIN ts})
         IN  [k \in 1..(hi - lo + 1) |-> FirstOfBin(ts, lo + k - 1)]

\* line 244, .dropna()
DropNa(s) == SelectSeq(s, LAMBDA x : x # NaN)

\* an int64 column that received a NaN is a float64 column: .tolist() then
\* returns floats
IsFloatColumn(s) == \E i \in DOMAIN s : s[i] = NaN

\* line 247, strftime('%Y-%m-%d_%H_%M_%S') of a corrected time: the day, the
\* hour, the minute and the second it shows
Strftime(t) == <<t \div 86400, (t % 86400) \div 3600, (t % 3600) \div 60, t % 60>>

Raised == [raised |-> TRUE, frame_numbers |-> <<>>, frame_dates |-> <<>>]

Returned(nums, dates) == [raised |-> FALSE, frame_numbers |-> nums, frame_dates |-> dates]

\* line 247: df.iloc[date] for date in frame_numbers. A float key makes iloc
\* raise TypeError; an int key selects the row
FrameDates(ts, nums, isFloat) ==
    IF nums # <<>> /\ isFloat THEN Raised
    ELSE Returned(nums, [k \in DOMAIN nums |-> Strftime(ts[nums[k] + 1])])

process_frame_data(log) ==
    IF log.kind \in {"unreadable", "badts"} THEN Raised
    ELSE LET ts == AddOffset(log.cts)
             binned == ResampleFirst(ts)
         IN  FrameDates(ts, DropNa(binned), IsFloatColumn(binned))

---------------------------------------------------------------------------
(* Source videos and the environment of one extraction                     *)
(*                                                                         *)
(* A video is [opens, w, h, fpsCenti, total]: whether cv2.VideoCapture can *)
(* open it, its frame size, its reported frame rate in hundredths of a     *)
(* frame per second, and its reported frame count.                         *)

Video(o, w, h, f, t) == [opens |-> o, w |-> w, h |-> h, fpsCenti |-> f, total |-> t]

\* the videos a camera-day draws its files from: two readable videos of
\* different frame sizes, one that cannot be opened, one with invalid
\* properties
RunVideos ==
    { Video(TRUE, 640, 480, 3000, 7200),
      Video(TRUE, 1280, 720, 3000, 3600),
      Video(FALSE, 0, 0, 0, 0),
      Video(TRUE, 640, 480, 0, 0) }

\* the video of a file pair shows its properties to the call that opens it;
\* a call that raises before it opens the video sees none of them
VideosFor(early) ==
    IF early THEN {Video(FALSE, 0, 0, 0, 0)} ELSE RunVideos

\* the logs a camera-day draws its files from: rows in one bin, rows in two
\* adjacent bins, rows with an empty bin between them, no data row,
\* unreadable, unparsable
RunLogs ==
    { [kind |-> "rows", cts |-> <<0>>],
      [kind |-> "rows", cts |-> <<0, 90>>],
      [kind |-> "rows", cts |-> <<0, 130>>],
      EmptyLog } \cup FailingLogs

\* what one video_capture.set()/read() pair does: "ok" decodes the frame at
\* the reader's position; "fail" returns ret = False and leaves the position;
\* "fail_skip" returns ret = False after consuming the frame; "raise" throws
ReadOutcomes == {"ok", "fail", "fail_skip", "raise"}

\* the outcomes of n reads in a row: nothing is read after an exception
ReadSeqs(n) ==
    {o \in [1..n -> ReadOutcomes] : \A i \in 1..n : \A j \in i..n : o[i] = "raise" => o[j] = "raise"}

\* which codec cv2.VideoWriter can open the output with: the primary one,
\* only the retry, or neither
Codecs == {"avc1", "mp4v", "none"}

---------------------------------------------------------------------------
(* The output writer, nvr.py:379-387 and 570-577 *)

\* video_writer = None
NoWriter == [made |-> FALSE, opened |-> FALSE, container |-> "none", w |-> 0, h |-> 0, releases |-> 0]

NewWriter(codec, w, h) ==
    [made |-> TRUE, opened |-> codec # "none",
     container |-> IF codec = "avc1" THEN "mp4" ELSE "avi",
     w |-> w, h |-> h, releases |-> 0]

\* the codec question is asked only when a call has to create the writer
CodecsFor(writer, video) ==
    IF writer = NoWriter /\ video.opens THEN Codecs ELSE {"avc1"}

\* `if video_writer is None:` creates the writer, otherwise keeps it
InitWriter(writer, codec, w, h) ==
    IF writer = NoWriter THEN NewWriter(codec, w, h) ELSE writer

\* InitSize without the test: every call takes the size of its own video
InitSize_latest(width, height, video) == <<video.w, video.h>>

\* `if frame_width is None or frame_height is None:` takes the size of the
\* video just opened, otherwise keeps the size
InitSize(width, height, video) ==
    IF width = NoSize \/ height = NoSize THEN <<video.w, video.h>> ELSE <<width, height>>

\* video_writer.write(frame): an unopened writer ignores the frame, and so
\* does a writer that was opened for another frame size
WriterAccepts(writer, video) ==
    writer.opened /\ writer.w = video.w /\ writer.h = video.h

WriterWrite(writer, video, frames, frame) ==
    IF WriterAccepts(writer, video) THEN Append(frames, frame) ELSE frames

---------------------------------------------------------------------------
(* extract_frames_to_video_and_csv, nvr.py:350-459 *)

\* one row of frame_data_list. frame_number and frame_date are the row the
\* code builds; file, idx and path record what the row describes: the file
\* pair, the sample's original frame index and the path that produced it
Row(n, date, file, idx, path) ==
    [frame_number |-> n, frame_date |-> date, file |-> file, idx |-> idx, path |-> path]

\* line 398: sorted(zip(frame_numbers, frame_dates), key=lambda x: x[0]),
\* a stable sort
SortedSamples(nums, dates) ==
    LET n == Len(nums)
        perm == CHOOSE p \in [1..n -> 1..n] :
                    /\ \A i, j \in 1..n : i # j => p[i] # p[j]
                    /\ \A i \in 1..(n - 1) :
                          \/ nums[p[i]] < nums[p[i + 1]]
                          \/ nums[p[i]] = nums[p[i + 1]] /\ p[i] < p[i + 1]
    IN  [i \in 1..n |-> <<nums[perm[i]], dates[perm[i]]>>]

\* LoopState with the counter started afresh for the file
LoopState_restart(fnIn) ==
    [prev |-> -1, pos |-> 0, fn |-> 0, rows |-> <<>>, frames |-> <<>>,
     decoded |-> 0, stopped |-> FALSE, warned |-> <<>>]

\* the locals of the extraction loop
LoopState(fnIn) ==
    [prev |-> -1, pos |-> 0, fn |-> fnIn, rows |-> <<>>, frames |-> <<>>,
     decoded |-> 0, stopped |-> FALSE, warned |-> <<>>]

\* lines 415-416: reposition unless the previous sample was the frame before
SeekTarget(st, num) == IF st.prev # num - 1 THEN num ELSE st.pos

\* PrimaryStep with `break` in the place of `continue`: a failed read ends
\* the file
PrimaryStep_break(st, sample, outcome, video, file, writer) ==
    LET at == SeekTarget(st, sample[1])
        ret == outcome = "ok" /\ at < video.total
    IN  IF st.stopped \/ outcome = "raise" \/ ~ret THEN [st EXCEPT !.stopped = TRUE]
        ELSE [st EXCEPT !.prev = sample[1],
                        !.pos = at + 1,
                        !.frames = WriterWrite(writer, video, @, [file |-> file, idx |-> at]),
                        !.rows = Append(@, Row(st.fn, sample[2], file, sample[1], "primary")),
                        !.fn = @ + 1,
                        !.decoded = @ + 1]

\* lines 413-428, one iteration
PrimaryStep(st, sample, outcome, video, file, writer) ==
    LET at == SeekTarget(st, sample[1])
        ret == outcome = "ok" /\ at < video.total
    IN  IF st.stopped THEN st
        ELSE IF outcome = "raise" THEN [st EXCEPT !.stopped = TRUE]
        ELSE IF ~ret
             THEN [st EXCEPT !.prev = sample[1],
                             !.pos = IF outcome = "fail_skip" THEN at + 1 ELSE at]
             ELSE [st EXCEPT !.prev = sample[1],
                             !.pos = at + 1,
                             !.frames = WriterWrite(writer, video, @, [file |-> file, idx |-> at]),
                             !.rows = Append(@, Row(st.fn, sample[2], file, sample[1], "primary")),
                             !.fn = @ + 1,
                             !.decoded = @ + 1]

\* LoopRaises without the except clause: an exception thrown in the loop
\* leaves the function
LoopRaises_propagate(st) == st.stopped

\* lines 436-437: `except Exception` swallows what the loop throws
LoopRaises(st) == FALSE

RECURSIVE PrimaryLoop(_, _, _, _, _, _, _)
PrimaryLoop(st, samples, outs, k, video, file, writer) ==
    IF k > Len(samples) THEN st
    ELSE PrimaryLoop(PrimaryStep(st, samples[k], outs[k], video, file, writer),
                     samples, outs, k + 1, video, file, writer)

\* what a call hands back to main(): raised (the exception left the
\* function), the five returned values, and what the call did to the
\* outside: frames put into the output video, frames decoded, whether a
\* reader was opened and whether it was released, how the call ended, and
\* the log entries it made for reads that returned no frame
Result(raised, fnOut, writer, w, h, rows, frames, decoded, opened, released, how, warned) ==
    [raised |-> raised, fn |-> fnOut, video_writer |-> writer, frame_width |-> w,
     frame_height |-> h, frame_data |-> rows, frames |-> frames, decoded |-> decoded,
     opened |-> opened, released |-> released, how |-> how, warned |-> warned]

extract_frames_to_video_and_csv(video, file, fnIn, writerIn, wIn, hIn, nums, dates, codec, outs, early) ==
    IF early
    THEN \* an exception of lines 369-403, outside the try
         Result(TRUE, fnIn, writerIn, wIn, hIn, <<>>, <<>>, 0, FALSE, FALSE, "raised", <<>>)
    ELSE IF ~video.opens
    THEN \* lines 370-372
         Result(FALSE, fnIn, writerIn, wIn, hIn, <<>>, <<>>, 0, FALSE, FALSE, "not_opened", <<>>)
    ELSE LET size == InitSize(wIn, hIn, video)
             writer == InitWriter(writerIn, codec, size[1], size[2])
             samples == SortedSamples(nums, dates)
             st == PrimaryLoop(LoopState(fnIn), samples, outs, 1, video, file, writer)
         IN  IF Len(samples) = 0
             THEN \* lines 401-403
                  Result(FALSE, fnIn, writer, size[1], size[2], <<>>, <<>>, 0, TRUE, FALSE, "no_samples", <<>>)
             ELSE \* lines 408-459
                  Result(LoopRaises(st), st.fn, writer, size[1], size[2], st.rows, st.frames,
                         st.decoded, TRUE, FALSE, IF st.stopped THEN "caught" ELSE "completed", st.warned)

---------------------------------------------------------------------------
(* extract_frames_fallback, nvr.py:526-633 *)

\* line 588: int(fps * 60 * interval_minutes)
frames_per_interval(video) == (video.fpsCenti * 60 * IntervalMinutes) \div 100

\* StrideIndices started one stride in: range(step, total, step)
StrideIndices_skip_first(total, step) ==
    LET n == (total - 1) \div step
    IN  [k \in 1..n |-> k * step]

\* line 597: range(0, total_frames, frames_per_interval), for a positive step
StrideIndices(total, step) ==
    LET n == (total + step - 1) \div step
    IN  [k \in 1..n |-> (k - 1) * step]

\* FallbackDate with a timestamp made up for the frame
FallbackDate_estimated == <<0, 0, 0, 0>>

\* line 611: frame_date = "missing"
FallbackDate == <<"missing">>

\* lines 597-616, one iteration
FallbackStep(st, i, outcome, video, file, writer) ==
    LET ret == outcome = "ok" /\ i < video.total
    IN  IF st.stopped THEN st
        ELSE IF outcome = "raise" THEN [st EXCEPT !.stopped = TRUE]
        ELSE IF ~ret
             THEN \* line 603: logger.warning(f"Could not read frame {i} from {mp4_file}")
                  [st EXCEPT !.warned = Append(@, [file |-> file, idx |-> i])]
        ELSE [st EXCEPT !.frames = WriterWrite(writer, video, @, [file |-> file, idx |-> i]),
                        !.rows = Append(@, Row(st.fn, FallbackDate, file, i, "fallback")),
                        !.fn = @ + 1,
                        !.decoded = @ + 1]

RECURSIVE FallbackLoop(_, _, _, _, _, _, _)
FallbackLoop(st, indices, outs, k, video, file, writer) ==
    IF k > Len(indices) THEN st
    ELSE FallbackLoop(FallbackStep(st, indices[k], outs[k], video, file, writer),
                      indices, outs, k + 1, video, file, writer)

\* the number of reads the primary loop attempts on a video
PrimaryReads(video, nums) == IF video.opens THEN Len(nums) ELSE 0

\* the number of reads the fallback loop attempts on a video
FallbackReads(video) ==
    IF ~video.opens \/ video.fpsCenti <= 0 \/ video.total <= 0 \/ frames_per_interval(video) = 0
    THEN 0
    ELSE Len(StrideIndices(video.total, frames_per_interval(video)))

extract_frames_fallback(video, file, fnIn, writerIn, wIn, hIn, codec, outs, early) ==
    IF early
    THEN \* an exception of lines 559-593, outside the try
         Result(TRUE, fnIn, writerIn, wIn, hIn, <<>>, <<>>, 0, FALSE, FALSE, "raised", <<>>)
    ELSE IF ~video.opens
    THEN \* lines 560-562
         Result(FALSE, fnIn, writerIn, wIn, hIn, <<>>, <<>>, 0, FALSE, FALSE, "not_opened", <<>>)
    ELSE LET size == InitSize(wIn, hIn, video)
             writer == InitWriter(writerIn, codec, size[1], size[2])
             step == frames_per_interval(video)
         IN  IF video.fpsCenti <= 0 \/ video.total <= 0
             THEN \* lines 583-585
                  Result(FALSE, fnIn, writer, size[1], size[2], <<>>, <<>>, 0, TRUE, FALSE, "invalid", <<>>)
             ELSE IF step = 0
             THEN \* range() with a zero step raises inside the try
                  Result(FALSE, fnIn, writer, size[1], size[2], <<>>, <<>>, 0, TRUE, TRUE, "caught", <<>>)
             ELSE LET st == FallbackLoop(LoopState(fnIn), StrideIndices(video.total, step),
                                         outs, 1, video, file, writer)
                  IN  Result(FALSE, st.fn, writer, size[1], size[2], st.rows, st.frames,
                             st.decoded, TRUE, TRUE, IF st.stopped THEN "caught" ELSE "completed", st.warned)

---------------------------------------------------------------------------
(* rename_mp4_files, nvr.py:90-101 *)

\* A path is a sequence of pieces of text; the string is their
\* concatenation. "/" separates the directories from the file name.
PathPieces == {"cam", "_0", "_10", ".mp4", ".txt", "/"}

\* the pieces after the last "/"
RECURSIVE NameOf(_)
NameOf(path) ==
    IF path = <<>> \/ path[Len(path)] = "/" THEN <<>>
    ELSE Append(NameOf(SubSeq(path, 1, Len(path) - 1)), path[Len(path)])

\* paths iterdir() can yield: a non-empty file name, no empty directory name
WellFormed(path) ==
    /\ path # <<>>
    /\ path[1] # "/"
    /\ path[Len(path)] # "/"
    /\ \A i \in 1..(Len(path) - 1) : ~(path[i] = "/" /\ path[i + 1] = "/")

Paths(n) == {path \in SeqsUpTo(PathPieces, n) : WellFormed(path)}

\* file.suffix: the last extension of the file name, '' for a name that has
\* none or is nothing else
Suffix(path) ==
    LET name == NameOf(path)
    IN  IF Len(name) >= 2 /\ name[Len(name)] \in {".mp4", ".txt"} THEN name[Len(name)] ELSE ""

\* '_0.mp4' in str(file)
ContainsSuffix0(path) == \E i \in 1..(Len(path) - 1) : path[i] = "_0" /\ path[i + 1] = ".mp4"

\* str.replace('_0.mp4', '.mp4'): every occurrence, anywhere in the string
RECURSIVE Replace(_)
Replace(path) ==
    IF path = <<>> THEN <<>>
    ELSE IF Len(path) >= 2 /\ path[1] = "_0" /\ path[2] = ".mp4" THEN Replace(Tail(path))
    ELSE <<path[1]>> \o Replace(Tail(path))

\* a directory entry: its path and whether it is a regular file
Entry(path, isFile) == [path |-> path, is_file |-> isFile]

NoEntry == Entry(<<>>, FALSE)

\* the iteration has not run
NotVisited == [visited |-> FALSE, renamed |-> FALSE, to |-> <<>>]

RenameIdle ==
    /\ entry = NoEntry
    /\ renamed = NotVisited

---------------------------------------------------------------------------
(* The video files of a source directory, nvr.py:90-206 *)

\* The name of a video file is the text "cam", numeric suffixes and ".mp4":
\* <<8, 1>> is cam_8_1.mp4, <<0>> is cam_0.mp4 and <<>> is cam.mp4.
SuffixNumbers == {0, 1, 2, 10}

FileSizes == {100, 200}

\* a file: its name, its byte size, and its content as the sequence of the
\* original files it is made of
File(name, size, content) == [name |-> name, size |-> size, content |-> content]

NamesOf(F) == {f.name : f \in F}

FileAt(F, name) == CHOOSE f \in F : f.name = name

Front(s) == SubSeq(s, 1, Len(s) - 1)

Last(s) == s[Len(s)]

\* the sequences src_dir.iterdir() can yield for a directory holding the
\* names S: every order
Listings(S) ==
    LET n == Cardinality(S)
    IN  {o \in [1..n -> S] : \A i, j \in 1..n : i # j => o[i] # o[j]}

\* the elements of S in ascending order of rank
RECURSIVE OrderBy(_, _)
OrderBy(S, rank) ==
    IF S = {} THEN <<>>
    ELSE LET m == CHOOSE x \in S : \A y \in S : rank[x] <= rank[y]
         IN  <<m>> \o OrderBy(S \ {m}, rank)

\* the position of the first element of order that has the key
FirstIndex(order, keys, key) == SetMin({i \in 1..Len(order) : keys[i] = key})

\* nvr.py:93 for a file of the directory: '_0.mp4' in str(file), the name
\* ends in _0.mp4
EndsIn0(name) == name # <<>> /\ Last(name) = 0

\* nvr.py:100 file.rename(new_file) on POSIX: a file that has the new name is
\* replaced
RenameTo(F, from, to) ==
    LET f == FileAt(F, from)
    IN  {g \in F : g.name # from /\ g.name # to} \cup {File(to, f.size, f.content)}

\* nvr.py:101
Renamed(from, to) == [msg |-> "renamed", from |-> from, to |-> to]

\* nvr.py:92-101: the loop over the listing
RECURSIVE RenameLoop(_, _, _)
RenameLoop(st, order, k) ==
    IF k > Len(order) THEN st
    ELSE LET name == order[k]
         IN  IF name \in NamesOf(st.files) /\ EndsIn0(name)
             THEN RenameLoop([files |-> RenameTo(st.files, name, Front(name)),
                              log |-> Append(st.log, Renamed(name, Front(name)))],
                             order, k + 1)
             ELSE RenameLoop(st, order, k + 1)

rename_mp4_files(F, order) == RenameLoop([files |-> F, log |-> <<>>], order, 1)

\* ---- concat_videos, nvr.py:104-206

\* what running ffmpeg does: it concatenates, it exits with an error
\* (CalledProcessError), or it cannot be started (FileNotFoundError)
Tools == {"ok", "error", "missing"}

\* line 115: ^(.+_\d+)_(\d+)\.mp4$ matches a name with two numeric suffixes
IsSplitPart(name) == Len(name) >= 2

\* line 170: file.name.startswith(f"{base}_")
StartsWith(name, base) == Len(name) > Len(base) /\ SubSeq(name, 1, Len(base)) = base

\* line 173: file.stem.rsplit('_', 1)[0]
RegularBase(name) == IF name = <<>> THEN <<>> ELSE Front(name)

\* the concatenation of the parts, in the order of the list file
RECURSIVE ConcatContent(_, _)
ConcatContent(F, parts) ==
    IF parts = <<>> THEN <<>>
    ELSE FileAt(F, parts[1]).content \o ConcatContent(F, Tail(parts))

RECURSIVE ConcatSize(_, _)
ConcatSize(F, parts) ==
    IF parts = <<>> THEN 0
    ELSE FileAt(F, parts[1]).size + ConcatSize(F, Tail(parts))

LogEntry(msg, base) == [msg |-> msg, base |-> base]

\* lines 125-160 and 182-206: the list file is written, ffmpeg runs, the
\* parts are unlinked (split groups only), the list file is unlinked
ConcatRun(st, base, parts, tool, unlinkParts) ==
    IF tool = "ok"
    THEN [st EXCEPT !.files = {g \in (IF unlinkParts THEN {f \in st.files : f.name \notin Range(parts)}
                                                       ELSE st.files) : g.name # base}
                               \cup {File(base, ConcatSize(st.files, parts), ConcatContent(st.files, parts))},
                    !.log = @ \o <<LogEntry("concatenating", base), LogEntry("concatenated", base)>>]
    ELSE [st EXCEPT !.log = @ \o <<LogEntry("concatenating", base), LogEntry("error", base)>>]

ConcatGroup(st, base, parts, tool, unlinkParts) ==
    IF tool = "missing"
    THEN [st EXCEPT !.lists = @ \cup {base}, !.raised = TRUE,
                    !.log = Append(@, LogEntry("concatenating", base))]
    ELSE ConcatRun(st, base, parts, tool, unlinkParts)

\* lines 122-160: the loop over split_groups.items()
RECURSIVE SplitLoop(_, _, _, _, _)
SplitLoop(st, F, keys, k, tool) ==
    IF k > Len(keys) \/ st.raised THEN st
    ELSE LET parts == {n \in NamesOf(F) : IsSplitPart(n) /\ Front(n) = keys[k]}
         IN  IF Cardinality(parts) > 1
             THEN SplitLoop(ConcatGroup(st, keys[k], OrderBy(parts, [n \in parts |-> Last(n)]), tool, TRUE),
                            F, keys, k + 1, tool)
             ELSE SplitLoop(st, F, keys, k + 1, tool)

\* lines 177-206: the loop over video_groups.items(); the sort key of line
\* 180 raises IndexError for a name without suffix
RECURSIVE RegularLoop(_, _, _, _, _)
RegularLoop(st, members, keys, k, tool) ==
    IF k > Len(keys) \/ st.raised THEN st
    ELSE LET parts == {n \in members : RegularBase(n) = keys[k]}
         IN  IF Cardinality(parts) > 1
             THEN IF <<>> \in parts
                  THEN [st EXCEPT !.raised = TRUE]
                  ELSE RegularLoop(ConcatGroup(st, keys[k], OrderBy(parts, [n \in parts |-> Last(n)]), tool, FALSE),
                                   members, keys, k + 1, tool)
             ELSE RegularLoop(st, members, keys, k + 1, tool)

\* the keys of the listed names in the order a dict receives them
KeysInOrder(order, keyOf) ==
    LET keys == [i \in 1..Len(order) |-> keyOf[order[i]]]
        S == Range(keys)
    IN  OrderBy(S, [key \in S |-> FirstIndex(order, keys, key)])

\* order is the listing of line 112; the listing of line 166 is taken to be
\* the same with the files concat_videos has created listed last
concat_videos(F, order, tool) ==
    LET split == SelectSeq(order, IsSplitPart)
        splitKeys == KeysInOrder(split, [n \in Range(split) |-> Front(n)])
        st1 == SplitLoop([files |-> F, lists |-> {}, log |-> <<>>, raised |-> FALSE],
                         F, splitKeys, 1, tool)
        Present(n) == n \in NamesOf(st1.files)
        Created(n) == n \in NamesOf(st1.files) \ NamesOf(F)
        Regular(n) == ~\E i \in 1..Len(splitKeys) : StartsWith(n, splitKeys[i])
        order2 == SelectSeq(SelectSeq(order, Present) \o SelectSeq(splitKeys, Created), Regular)
    IN  IF st1.raised THEN st1
        ELSE RegularLoop(st1, Range(order2), KeysInOrder(order2, [n \in Range(order2) |-> RegularBase(n)]), 1, tool)

\* ---- a run over the directory

\* no run has been made
NoRun == [op |-> "none", runs |-> 0, first |-> {}, prev |-> {}, log |-> <<>>, lists |-> {}, raised |-> FALSE, tool |-> "none"]

FolderIdle ==
    /\ folder = {}
    /\ norm = NoRun

\* ---- main() over the list of cameras, main.py:49-201

\* main() has not started on a list of cameras
NoProgress == [loop |-> "none", idx |-> 0, exported |-> <<>>, handled |-> <<>>]

CamerasIdle ==
    /\ cams = <<>>
    /\ progress = NoProgress

\* the directories of at most n original files with names of at most two
\* suffixes drawn from N
Folders(N, n) ==
    LET names == SeqsUpTo(N, 2)
    IN  UNION {{{File(m, size[m], <<m>>) : m \in S} : size \in [S -> FileSizes]} :
                 S \in {T \in SUBSET names : Cardinality(T) <= n}}

---------------------------------------------------------------------------
(* One call of an extractor: its arguments and what it hands back *)

\* a call: which extractor, the paired video, the counter passed in, the
\* samples (frame_numbers, frame_dates), the codec the writer opens with, the
\* outcomes of the reads, and whether the call raises before its loop
Job(op, video, fnIn, nums, dates, codec, outs, early) ==
    [op |-> op, video |-> video, fnIn |-> fnIn, nums |-> nums, dates |-> dates,
     codec |-> codec, outs |-> outs, early |-> early]

\* no call is being made
NoJob == Job("none", Video(FALSE, 0, 0, 0, 0), 0, <<>>, <<>>, "none", <<>>, FALSE)

\* the call has not returned
NotRun == Result(FALSE, 0, NoWriter, NoSize, NoSize, <<>>, <<>>, 0, FALSE, FALSE, "not_run", <<>>)

ExtractorIdle ==
    /\ job = NoJob
    /\ done = NotRun

---------------------------------------------------------------------------
(* SamplerSpec *)

NotCalled == [raised |-> FALSE, frame_numbers |-> <<>>, frame_dates |-> <<"not called">>]

\* no file pair is being processed
NoFile == [kind |-> "none", cts |-> <<>>]

\* process_frame_data has not returned anything for the current file pair
NoParse == [raised |-> FALSE, frame_numbers |-> <<>>, frame_dates |-> <<>>]

\* the table file does not exist
NoCsv == [exists |-> FALSE, rows |-> <<>>]

\* first is the frame size of the first video a call opened, created the
\* number of times a call handed back another writer than it was given
NoStats == [releases |-> 0, csvWrites |-> 0, decoded |-> 0, first |-> <<NoSize, NoSize>>, created |-> 0]

\* the locals of main() when the loop body starts for a camera
RunIdle ==
    /\ pc = "start"
    /\ file_pairs = <<>>
    /\ nFiles = 0
    /\ fileIdx = 0
    /\ cur = NoFile
    /\ parsed = NoParse
    /\ fn = 0
    /\ video_writer = NoWriter
    /\ frame_width = NoSize
    /\ frame_height = NoSize
    /\ all_frame_data = <<>>
    /\ outVideo = <<>>
    /\ csvFile = NoCsv
    /\ attempts = <<>>
    /\ calls = <<>>
    /\ stats = NoStats

SamplerInit ==
    /\ series \in AllLogs
    /\ sampled = NotCalled
    /\ ExtractorIdle
    /\ RenameIdle
    /\ RunIdle
    /\ FolderIdle
    /\ CamerasIdle

Sample ==
    /\ sampled = NotCalled
    /\ sampled' = process_frame_data(series)
    /\ UNCHANGED <<series>>
    /\ UNCHANGED extractorVars
    /\ UNCHANGED renameVars
    /\ UNCHANGED runVars
    /\ UNCHANGED dirVars
    /\ UNCHANGED camVars

SamplerNext == Sample

SamplerSpec == SamplerInit /\ [][SamplerNext]_vars

---------------------------------------------------------------------------
(* ExtractorSpec *)

\* the original frame indices the samples of a call are drawn from
SampleIndices == {0, 1, 2, 5}

\* the frame_date that comes with the sample of row i: rows a minute apart
DateOf(i) == Strftime(i * 60 + OffsetSeconds)

\* frame_numbers as process_frame_data can return them: distinct row
\* indices, in any order
SampleLists(n) == {s \in SeqsUpTo(SampleIndices, n) : \A i, j \in DOMAIN s : i # j => s[i] # s[j]}

\* the counter a call can be handed: the first file's 0, a later file's count
CounterValues == {0, 7}

\* the videos of the primary calls
PrimaryVideos == {Video(TRUE, 640, 480, 3000, 7200), Video(FALSE, 0, 0, 0, 0)}

\* the videos of the fallback calls: 30 fps, 59.94 fps and an unreported
\* frame rate, with frame counts around the multiples of the stride
FallbackVideos ==
    {Video(TRUE, 640, 480, f, t) : f \in {3000, 5994, 0}, t \in {0, 1, 3600, 7193, 7200}}
        \cup {Video(FALSE, 0, 0, 0, 0)}

PrimaryJobs ==
    UNION {UNION {{Job("primary", v, f, n, [k \in DOMAIN n |-> DateOf(n[k])], c, o, FALSE) :
                      f \in CounterValues, c \in CodecsFor(NoWriter, v),
                      o \in ReadSeqs(PrimaryReads(v, n))} :
                  n \in SampleLists(MaxSamples)} : v \in PrimaryVideos}

FallbackJobs ==
    UNION {{Job("fallback", v, f, <<>>, <<>>, c, o, FALSE) :
               f \in CounterValues, c \in CodecsFor(NoWriter, v),
               o \in ReadSeqs(FallbackReads(v))} : v \in FallbackVideos}

\* calls that raise before they reach their loop
RaisingJobs ==
    {Job(op, Video(FALSE, 0, 0, 0, 0), f, <<>>, <<>>, "avc1", <<>>, TRUE) :
        op \in {"primary", "fallback"}, f \in CounterValues}

ExtractorInit ==
    /\ job \in PrimaryJobs \cup FallbackJobs \cup RaisingJobs
    /\ done = NotRun
    /\ series = EmptyLog
    /\ sampled = NotCalled
    /\ RenameIdle
    /\ RunIdle
    /\ FolderIdle
    /\ CamerasIdle

\* one call of extract_frames_to_video_and_csv, the first of a camera-day
RunPrimary ==
    /\ job.op = "primary"
    /\ done = NotRun
    /\ done' = extract_frames_to_video_and_csv(job.video, 1, job.fnIn, NoWriter, NoSize, NoSize,
                    job.nums, job.dates, job.codec, job.outs, job.early)
    /\ UNCHANGED <<job>>
    /\ UNCHANGED samplerVars
    /\ UNCHANGED renameVars
    /\ UNCHANGED runVars
    /\ UNCHANGED dirVars
    /\ UNCHANGED camVars

\* one call of extract_frames_fallback, the first of a camera-day
RunFallback ==
    /\ job.op = "fallback"
    /\ done = NotRun
    /\ done' = extract_frames_fallback(job.video, 1, job.fnIn, NoWriter, NoSize, NoSize,
                    job.codec, job.outs, job.early)
    /\ UNCHANGED <<job>>
    /\ UNCHANGED samplerVars
    /\ UNCHANGED renameVars
    /\ UNCHANGED runVars
    /\ UNCHANGED dirVars
    /\ UNCHANGED camVars

ExtractorNext == RunPrimary \/ RunFallback

ExtractorSpec == ExtractorInit /\ [][ExtractorNext]_vars

---------------------------------------------------------------------------
(* find_file_pairs, nvr.py:209-217 *)

\* the segment numbers of the files of a camera-day as digit strings, in the
\* order the segments are exported: 10, 2, 9, 1, 100
SegmentArrival == << <<1, 0>>, <<2>>, <<9>>, <<1>>, <<1, 0, 0>> >>

\* a file name: the camera-day's base name, the segment digits, the extension
FileName(digits, ext) == [stem |-> digits, ext |-> ext]

\* src_dir.rglob("*.mp4") for a directory that holds n segments: a set, the
\* order of the listing is not defined
DirListing(n) == {FileName(SegmentArrival[i], "mp4") : i \in 1..n}

\* int(text) of a digit string
RECURSIVE IntOf(_)
IntOf(d) == IF d = <<>> THEN 0 ELSE IntOf(SubSeq(d, 1, Len(d) - 1)) * 10 + d[Len(d)]

\* the digit string as a lexical key: its digits left-aligned in three
\* places, a shorter string before a longer one it begins
LexKey(d) == ((IF Len(d) >= 1 THEN d[1] + 1 ELSE 0) * 100 + (IF Len(d) >= 2 THEN d[2] + 1 ELSE 0) * 10 + (IF Len(d) >= 3 THEN d[3] + 1 ELSE 0))

\* NaturalKey that compares the names as plain strings
NaturalKey_lexical(file) == LexKey(file.stem)

\* the key natsorted() orders by: the digits of a name count as a number
NaturalKey(file) == IntOf(file.stem)

\* line 213: natsorted(...)
natsorted(S) ==
    CHOOSE s \in [1..Cardinality(S) -> S] :
        \A i, j \in 1..Cardinality(S) : i < j => NaturalKey(s[i]) < NaturalKey(s[j])

\* line 214: mp4_file.with_suffix('.txt')
with_suffix(file, ext) == [file EXCEPT !.ext = ext]

find_file_pairs(S) ==
    [i \in 1..Cardinality(S) |-> <<natsorted(S)[i], with_suffix(natsorted(S)[i], "txt")>>]

---------------------------------------------------------------------------
(* RenameSpec *)

RenameInit ==
    /\ \E path \in Paths(MaxPieces), isFile \in BOOLEAN : entry = Entry(path, isFile)
    /\ renamed = NotVisited
    /\ series = EmptyLog
    /\ sampled = NotCalled
    /\ ExtractorIdle
    /\ RunIdle
    /\ FolderIdle
    /\ CamerasIdle

\* lines 93-101: one iteration of `for file in src_dir.iterdir()`
RenameEntry ==
    /\ renamed = NotVisited
    /\ renamed' = IF entry.is_file /\ Suffix(entry.path) = ".mp4" /\ ContainsSuffix0(entry.path)
                   THEN [visited |-> TRUE, renamed |-> TRUE, to |-> Replace(entry.path)]
                   ELSE [visited |-> TRUE, renamed |-> FALSE, to |-> entry.path]
    /\ UNCHANGED <<entry>>
    /\ UNCHANGED samplerVars
    /\ UNCHANGED extractorVars
    /\ UNCHANGED runVars
    /\ UNCHANGED dirVars
    /\ UNCHANGED camVars

RenameNext == RenameEntry

RenameSpec == RenameInit /\ [][RenameNext]_vars

---------------------------------------------------------------------------
(* NormalizerSpec: rename_mp4_files over a directory, as main.py:88 calls it *)

NormalizerInit ==
    /\ folder \in Folders({0, 1}, MaxEntries)
    /\ norm = NoRun
    /\ CamerasIdle
    /\ series = EmptyLog
    /\ sampled = NotCalled
    /\ ExtractorIdle
    /\ RenameIdle
    /\ RunIdle

\* one call of rename_mp4_files(logger, src_dir)
RenameMp4Files ==
    /\ norm.runs < MaxRuns
    /\ \E order \in Listings(NamesOf(folder)) :
         \E r \in {rename_mp4_files(folder, order)} :
            /\ folder' = r.files
            /\ norm' = [op |-> "rename", runs |-> norm.runs + 1,
                        first |-> IF norm.runs = 0 THEN folder ELSE norm.first,
                        prev |-> folder, log |-> r.log, lists |-> {},
                        raised |-> FALSE, tool |-> "none"]
    /\ UNCHANGED camVars
    /\ UNCHANGED samplerVars
    /\ UNCHANGED extractorVars
    /\ UNCHANGED renameVars
    /\ UNCHANGED runVars

NormalizerNext == RenameMp4Files

NormalizerSpec == NormalizerInit /\ [][NormalizerNext]_vars

---------------------------------------------------------------------------
(* ConcatSpec: concat_videos over a directory *)

ConcatInit ==
    /\ folder \in {F \in Folders({1, 2, 10}, MaxEntries) : \A f \in F : f.size = 100}
    /\ norm = NoRun
    /\ CamerasIdle
    /\ series = EmptyLog
    /\ sampled = NotCalled
    /\ ExtractorIdle
    /\ RenameIdle
    /\ RunIdle

\* one call of concat_videos(src_dir, logger)
ConcatVideos ==
    /\ norm.runs < MaxRuns
    /\ \E tool \in Tools, order \in Listings(NamesOf(folder)) :
         \E r \in {concat_videos(folder, order, tool)} :
            /\ folder' = r.files
            /\ norm' = [op |-> "concat", runs |-> norm.runs + 1,
                        first |-> IF norm.runs = 0 THEN folder ELSE norm.first,
                        prev |-> folder, log |-> r.log, lists |-> r.lists,
                        raised |-> r.raised, tool |-> tool]
    /\ UNCHANGED camVars
    /\ UNCHANGED samplerVars
    /\ UNCHANGED extractorVars
    /\ UNCHANGED renameVars
    /\ UNCHANGED runVars

ConcatNext == ConcatVideos

ConcatSpec == ConcatInit /\ [][ConcatNext]_vars

---------------------------------------------------------------------------
(* CamerasSpec: main() over the list of cameras, main.py:49-201 *)

\* what the second loop finds for a camera: no source directory, an error
\* raised by dst_dir.mkdir, by rename_mp4_files or by find_file_pairs, no
\* file pair, or file pairs to process
Dirs == {"missing", "mkdir_error", "rename_error", "listing_error", "no_pairs", "pairs"}

\* what running rsync does: it copies, it exits with an error
\* (CalledProcessError), or it cannot be started (FileNotFoundError)
Rsync == {"ok", "error", "missing"}

\* What a camera-day run (main.py:100-168) leaves in dst_dir: the container
\* of the writer that opened ("none" when no writer opened), the number of
\* rows collected, whether to_csv saved the table, and whether a file is
\* left under the .mp4 name when the writer opened as .avi.
Outcome(writer, rows, csv, mp4Left) == [writer |-> writer, rows |-> rows, csv |-> csv, mp4Left |-> mp4Left]

NoOutcome == Outcome("none", 0, FALSE, FALSE)

\* rows can be collected while no writer opened (neither codec worked)
Outcomes ==
    {o \in [writer : {"none", "mp4", "avi"}, rows : {0, 1}, csv : BOOLEAN, mp4Left : BOOLEAN] :
        /\ o.csv => o.rows > 0
        /\ o.mp4Left => o.writer = "avi"}

\* main.py:173-177: output_video_path is always the .mp4 name
OutputVideoExists(out) == out.writer = "mp4" \/ out.mp4Left

TableExists(out) == out.csv

\* nvr.py:476-482: how one call ends
transfer_data_local_remote(rsync) ==
    CASE rsync = "ok" -> [how |-> "returned", log |-> "transferred"]
      [] rsync = "error" -> [how |-> "returned", log |-> "error"]
      [] rsync = "missing" -> [how |-> "raised", log |-> "none"]

\* main.py:170-201: the calls of the transfer collaborator for a camera, and
\* whether one of them raised into main()'s except clause
Transfer(out, rsync) ==
    IF ~(OutputVideoExists(out) /\ TableExists(out))
    THEN [invoked |-> <<>>, caught |-> FALSE]
    ELSE IF transfer_data_local_remote(rsync).how = "raised"
         THEN [invoked |-> <<"video">>, caught |-> TRUE]
         ELSE [invoked |-> <<"video", "table">>, caught |-> FALSE]

\* what the second loop did for a camera
Handled(dir, out, rsync, transfer) == [dir |-> dir, out |-> out, rsync |-> rsync, invoked |-> transfer.invoked, caught |-> transfer.caught]

NoTransfer == [invoked |-> <<>>, caught |-> FALSE]

CamerasInit ==
    /\ \E n \in 1..MaxCams : cams = [i \in 1..n |-> i]
    /\ progress = [loop |-> "export", idx |-> 1, exported |-> <<>>, handled |-> <<>>]
    /\ FolderIdle
    /\ series = EmptyLog
    /\ sampled = NotCalled
    /\ ExtractorIdle
    /\ RenameIdle
    /\ RunIdle

\* main.py:52-72: one iteration of the first loop; an exception of
\* convert_single_camera is logged and the loop continues
ExportCamera ==
    /\ progress.loop = "export"
    /\ \E ok \in BOOLEAN :
         progress' = [progress EXCEPT !.exported = Append(@, ok),
                                      !.idx = IF progress.idx = Len(cams) THEN 1 ELSE @ + 1,
                                      !.loop = IF progress.idx = Len(cams) THEN "process" ELSE @]
    /\ UNCHANGED <<cams>>
    /\ UNCHANGED dirVars
    /\ UNCHANGED samplerVars
    /\ UNCHANGED extractorVars
    /\ UNCHANGED renameVars
    /\ UNCHANGED runVars

\* the loop variable after an iteration of the second loop
Advance(p) == [p EXCEPT !.idx = @ + 1, !.loop = IF p.idx = Len(cams) THEN "done" ELSE @]

\* main.py:84-94 are in no try block: an exception leaves main()
Abort(p) == [p EXCEPT !.loop = "aborted"]

\* main.py:74-201: one iteration of the second loop
ProcessCamera ==
    /\ progress.loop = "process"
    /\ \E dir \in Dirs :
         \/ /\ dir \in {"missing", "no_pairs"}
            /\ progress' = Advance([progress EXCEPT !.handled = Append(@, Handled(dir, NoOutcome, "ok", NoTransfer))])
         \/ /\ dir \in {"mkdir_error", "rename_error", "listing_error"}
            /\ progress' = Abort([progress EXCEPT !.handled = Append(@, Handled(dir, NoOutcome, "ok", NoTransfer))])
         \/ /\ dir = "pairs"
            /\ \E out \in Outcomes, rsync \in Rsync :
                 \* rsync is not run when the transfer is not invoked
                 /\ (rsync # "ok") => (OutputVideoExists(out) /\ TableExists(out))
                 /\ progress' = Advance([progress EXCEPT !.handled = Append(@, Handled(dir, out, rsync, Transfer(out, rsync)))])
    /\ UNCHANGED <<cams>>
    /\ UNCHANGED dirVars
    /\ UNCHANGED samplerVars
    /\ UNCHANGED extractorVars
    /\ UNCHANGED renameVars
    /\ UNCHANGED runVars

CamerasNext == ExportCamera \/ ProcessCamera

CamerasSpec == CamerasInit /\ [][CamerasNext]_vars

---------------------------------------------------------------------------
(* main(), main.py:74-168: the body of the loop over the cameras *)

\* one call main() made: the function, how the call ended, the rows and
\* output frames it added, and whether it opened and released a reader
Call(op, how, rows, frames, opened, released) ==
    [op |-> op, how |-> how, rows |-> rows, frames |-> frames,
     opened |-> opened, released |-> released]

Attempt(file, path) == [file |-> file, path |-> path]

\* the latest attempt is now handled by the fallback path
ToFallback(att) == [att EXCEPT ![Len(att)].path = "fallback"]

Init ==
    /\ series = EmptyLog
    /\ sampled = NotCalled
    /\ ExtractorIdle
    /\ RenameIdle
    /\ RunIdle
    /\ FolderIdle
    /\ CamerasIdle

\* lines 74-98: the camera's source directory does not exist, or
\* find_file_pairs returned no pair: `continue`
SkipCamera ==
    /\ pc = "start"
    /\ pc' = "skipped"
    /\ UNCHANGED <<nFiles, fileIdx, cur, parsed, fn, video_writer, frame_width,
                   frame_height, all_frame_data, outVideo, csvFile, attempts, calls, stats>>
    /\ UNCHANGED <<file_pairs>>
    /\ UNCHANGED funcVars

\* lines 74-103: a camera with n file pairs; its output directory is new
StartRun ==
    /\ pc = "start"
    /\ \E n \in 1..MaxFiles :
          /\ file_pairs' = find_file_pairs(DirListing(n))
          /\ nFiles' = n
    /\ fileIdx' = 0
    /\ fn' = 0
    /\ video_writer' = NoWriter
    /\ frame_width' = NoSize
    /\ frame_height' = NoSize
    /\ all_frame_data' = <<>>
    /\ outVideo' = <<>>
    /\ csvFile' = NoCsv
    /\ attempts' = <<>>
    /\ calls' = <<>>
    /\ stats' = NoStats
    /\ cur' = NoFile
    /\ parsed' = NoParse
    /\ pc' = "loop"
    /\ UNCHANGED funcVars

\* lines 105-114: the next file pair, and process_frame_data on its log
ProcessFrameData ==
    /\ pc = "loop"
    /\ fileIdx < nFiles
    /\ \E log \in RunLogs :
          \E r \in {process_frame_data(log)} :
              /\ cur' = log
              /\ parsed' = IF r.raised THEN NoParse ELSE r
              /\ calls' = <<Call("parse", IF r.raised THEN "raised" ELSE "returned",
                                  0, 0, FALSE, FALSE)>>
              /\ pc' = IF r.raised THEN "fallback" ELSE "primary"
              /\ attempts' = Append(attempts, Attempt(fileIdx + 1,
                                        IF r.raised THEN "fallback" ELSE "primary"))
    /\ UNCHANGED <<nFiles, fileIdx, fn, video_writer, frame_width, frame_height,
                   all_frame_data, outVideo, csvFile, stats>>
    /\ UNCHANGED <<file_pairs>>
    /\ UNCHANGED funcVars

\* what main() does with a returned tuple: lines 116 and 129, 136 and 149
TakeResult(r, video) ==
    /\ fn' = r.fn
    /\ video_writer' = r.video_writer
    /\ frame_width' = r.frame_width
    /\ frame_height' = r.frame_height
    /\ all_frame_data' = all_frame_data \o r.frame_data
    /\ outVideo' = outVideo \o r.frames
    /\ stats' = [stats EXCEPT !.decoded = @ + r.decoded,
                              !.first = IF @ = <<NoSize, NoSize>> /\ r.opened
                                        THEN <<video.w, video.h>> ELSE @,
                              !.created = IF r.video_writer # video_writer THEN @ + 1 ELSE @]

\* what main() keeps when the call raised: lines 130-131, 152-153; what
\* the call has put into the video file stays there
KeepLocals(r) ==
    /\ outVideo' = outVideo \o r.frames
    /\ UNCHANGED <<fn, video_writer, frame_width, frame_height, all_frame_data, stats>>

\* AfterFallback without the except clause: the exception leaves main()
AfterFallback_unhandled(raised) == IF raised THEN "crashed" ELSE "loop"

\* lines 152-155: the except clause logs the error and the loop continues
AfterFallback(raised) == "loop"

\* lines 116-134: the primary extraction of the current file pair
ExtractPrimary ==
    /\ pc = "primary"
    /\ \E early \in BOOLEAN :
       \E video \in VideosFor(early) :
       \E codec \in CodecsFor(video_writer, video),
          outs \in ReadSeqs(PrimaryReads(video, parsed.frame_numbers)) :
          \E r \in {extract_frames_to_video_and_csv(video, fileIdx + 1, fn, video_writer,
                       frame_width, frame_height, parsed.frame_numbers, parsed.frame_dates,
                       codec, outs, early)} :
              /\ calls' = Append(calls, Call("primary", r.how, Len(r.frame_data),
                                              Len(r.frames), r.opened, r.released))
              /\ IF r.raised
                 THEN /\ KeepLocals(r)
                      /\ pc' = "fallback"
                      /\ attempts' = ToFallback(attempts)
                      /\ UNCHANGED <<fileIdx, cur>>
                 ELSE /\ TakeResult(r, video)
                      /\ pc' = "loop"
                      /\ fileIdx' = fileIdx + 1
                      /\ cur' = NoFile
                      /\ UNCHANGED attempts
    /\ parsed' = NoParse
    /\ UNCHANGED <<nFiles, csvFile>>
    /\ UNCHANGED <<file_pairs>>
    /\ UNCHANGED funcVars

\* lines 135-155: the fallback extraction of the current file pair
ExtractFallback ==
    /\ pc = "fallback"
    /\ \E early \in BOOLEAN :
       \E video \in VideosFor(early) :
       \E codec \in CodecsFor(video_writer, video),
          outs \in ReadSeqs(FallbackReads(video)) :
          \E r \in {extract_frames_fallback(video, fileIdx + 1, fn, video_writer,
                       frame_width, frame_height, codec, outs, early)} :
              /\ calls' = Append(calls, Call("fallback", r.how, Len(r.frame_data),
                                              Len(r.frames), r.opened, r.released))
              /\ IF r.raised THEN KeepLocals(r) ELSE TakeResult(r, video)
              /\ pc' = AfterFallback(r.raised)
    /\ fileIdx' = fileIdx + 1
    /\ cur' = NoFile
    /\ UNCHANGED <<nFiles, parsed, csvFile, attempts>>
    /\ UNCHANGED <<file_pairs>>
    /\ UNCHANGED funcVars

\* line 158: video_writer.release()
Release(writer) == [writer EXCEPT !.releases = @ + 1]

\* line 157: `if video_writer:`
ShouldRelease(writer) == writer # NoWriter

\* ShouldWriteCsv without the guard: the table is written in every run
ShouldWriteCsv_always(rows) == TRUE

\* line 161: `if all_frame_data:`
ShouldWriteCsv(rows) == rows # <<>>

\* lines 157-168: after the last file pair the writer is released and the
\* table is written; saved says whether to_csv succeeded
Finalize ==
    /\ pc = "loop"
    /\ fileIdx = nFiles
    /\ video_writer' = IF ShouldRelease(video_writer) THEN Release(video_writer) ELSE video_writer
    /\ \E saved \in BOOLEAN :
          /\ csvFile' = IF ShouldWriteCsv(all_frame_data) /\ saved
                         THEN [exists |-> TRUE, rows |-> all_frame_data]
                         ELSE csvFile
          /\ stats' = [stats EXCEPT
                         !.releases = @ + (IF ShouldRelease(video_writer) THEN 1 ELSE 0),
                         !.csvWrites = @ + (IF ShouldWriteCsv(all_frame_data) THEN 1 ELSE 0)]
    /\ pc' = "finalized"
    /\ UNCHANGED <<nFiles, fileIdx, cur, parsed, fn, frame_width, frame_height,
                   all_frame_data, outVideo, attempts, calls>>
    /\ UNCHANGED <<file_pairs>>
    /\ UNCHANGED funcVars

Next ==
    \/ SkipCamera
    \/ StartRun
    \/ ProcessFrameData
    \/ ExtractPrimary
    \/ ExtractFallback
    \/ Finalize

Spec == Init /\ [][Next]_vars

\* main() is one sequential program: it always takes its next step
FairSpec == Spec /\ WF_vars(Next)

---------------------------------------------------------------------------
(* Properties of the camera-day run *)

\* the sentinel of the output table for a row without a timestamp
Missing == <<"missing">>

LastCall == calls[Len(calls)]

RowsOfFile(rows, i) == SelectSeq(rows, LAMBDA r : r.file = i)

Numbered(rows) == \A k \in DOMAIN rows : rows[k].frame_number = k - 1

\* C1. Counter continuity: the frame_number values of the rows collected, and
\* of the rows of the final table, are exactly 0, 1, ..., K-1 in ascending
\* order, K being the number of frames decoded in the run so far; the
\* counter equals K after every file, so it is never reset between files.
C1_CounterContinuity ==
    /\ Numbered(all_frame_data)
    /\ Len(all_frame_data) = stats.decoded
    /\ fn = stats.decoded
    /\ csvFile.exists => (Numbered(csvFile.rows) /\ Len(csvFile.rows) = stats.decoded)

\* a final table of at least three rows from two files, one handled by
\* the primary path and one by the fallback path, in a run of three files of
\* which one contributed nothing
C1_Witness ==
    /\ csvFile.exists
    /\ nFiles = 3
    /\ Len(csvFile.rows) >= 3
    /\ \E i, j \in 1..3 : /\ i # j
                          /\ \E r \in Range(csvFile.rows) : r.file = i /\ r.path = "primary"
                          /\ \E r \in Range(csvFile.rows) : r.file = j /\ r.path = "fallback"
    /\ \E i \in 1..3 : RowsOfFile(csvFile.rows, i) = <<>>

\* C2. Video/table alignment: at the end of the run the output video holds
\* as many frames as the table has rows, and its k-th frame is the frame the
\* row with frame_number k describes.
C2_VideoTableAligned ==
    pc = "finalized" =>
        /\ Len(outVideo) = Len(all_frame_data)
        /\ \A k \in DOMAIN all_frame_data :
              /\ outVideo[k].file = all_frame_data[k].file
              /\ outVideo[k].idx = all_frame_data[k].idx

\* C3. A row's frame_date is 'missing' exactly when the fallback path produced
\* it; a file whose log failed to parse is handled by the fallback path; the
\* rows of a file all come from the path that handled it, files follow one
\* another in the table in processing order, and each row's number is one
\* more than the row before it, across file boundaries. In a run of three
\* files handled by primary, fallback, primary, the table is the rows of
\* file 1 with timestamps, then those of file 2 all 'missing', then those of
\* file 3 with timestamps.
C3_FallbackRowsMissing ==
    /\ \A k \in DOMAIN all_frame_data :
          LET r == all_frame_data[k]
          IN  /\ (r.frame_date = Missing) <=> (r.path = "fallback")
              /\ r.file \in DOMAIN attempts
              /\ r.path = attempts[r.file].path
              /\ k > 1 => /\ all_frame_data[k - 1].file <= r.file
                          /\ r.frame_number = all_frame_data[k - 1].frame_number + 1
    /\ (calls # <<>> /\ calls[1].how = "raised") => attempts[Len(attempts)].path = "fallback"
    /\ (pc = "finalized" /\ nFiles = 3 /\ [i \in 1..3 |-> attempts[i].path] = <<"primary", "fallback", "primary">>) =>
          /\ all_frame_data = RowsOfFile(all_frame_data, 1) \o RowsOfFile(all_frame_data, 2) \o RowsOfFile(all_frame_data, 3)
          /\ \A r \in Range(RowsOfFile(all_frame_data, 1)) : r.frame_date # Missing
          /\ \A r \in Range(RowsOfFile(all_frame_data, 2)) : r.frame_date = Missing
          /\ \A r \in Range(RowsOfFile(all_frame_data, 3)) : r.frame_date # Missing

\* the three-file run of the scenario, finished, with rows from every file
C3_Witness ==
    /\ pc = "finalized"
    /\ csvFile.exists
    /\ nFiles = 3
    /\ [i \in 1..3 |-> attempts[i].path] = <<"primary", "fallback", "primary">>
    /\ \A i \in 1..3 : RowsOfFile(csvFile.rows, i) # <<>>

\* C4. No file stops the run: the file pairs are taken up one by one in list
\* order, each exactly once; whatever a call does, main() is at one of its
\* loop positions and can take its next step until the run is finalized; at
\* finalization every file pair has been attempted.
C4_EveryFileAttempted ==
    /\ pc \in {"start", "skipped", "loop", "primary", "fallback", "finalized"}
    /\ \A i \in DOMAIN attempts : attempts[i].file = i
    /\ Len(attempts) = (IF pc \in {"primary", "fallback"} THEN fileIdx + 1 ELSE fileIdx)
    /\ fileIdx <= nFiles
    /\ pc = "finalized" => Len(attempts) = nFiles
    /\ pc \in {"start", "loop", "primary", "fallback"} => ENABLED Next

\* a finalized run of three files in which every file failed: each went to
\* the fallback path, the last fallback call raised, and no row was collected
C4_Witness ==
    /\ pc = "finalized"
    /\ nFiles = 3
    /\ \A i \in 1..3 : attempts[i].path = "fallback"
    /\ LastCall.op = "fallback" /\ LastCall.how = "raised"
    /\ all_frame_data = <<>>

\* C5. Whenever the primary path fails for a file (the parser raises, the
\* video cannot be opened, an exception occurs in the extraction loop or
\* leaves the extractor), the fallback extraction is invoked for that file
\* before the next file.
C5_FallbackAfterPrimaryFailure ==
    (pc \in {"loop", "finalized"} /\ \E c \in Range(calls) :
         c.op \in {"parse", "primary"} /\ c.how \in {"raised", "not_opened", "caught"})
    => \E c \in Range(calls) : c.op = "fallback"

\* C6. A log that cannot be read, has no data row, or has unparsable
\* timestamps makes the parser fail, so the file goes to the fallback path.
C6_BadLogGoesToFallback ==
    (pc \in {"primary", "fallback"} /\ cur.kind \in {"unreadable", "norows", "badts"})
    => (pc = "fallback" /\ calls[1].how = "raised")

\* C7. A fallback extraction that fails contributes nothing: no row, no
\* output frame, no change of the counter.
C7_FailedFallbackContributesNothing ==
    (pc \in {"loop", "finalized"} /\ calls # <<>> /\ LastCall.op = "fallback"
        /\ LastCall.how \in {"raised", "caught"})
    => (LastCall.rows = 0 /\ LastCall.frames = 0)

C9_ReadersReleased ==
    /\ \A c \in Range(calls) : c.opened => c.released
    /\ (pc = "finalized" /\ video_writer.made) => video_writer.releases = 1

\* a is the digit string of a smaller number than b (no leading zeros)
NaturallyBefore(a, b) ==
    \/ Len(a) < Len(b)
    \/ /\ Len(a) = Len(b)
       /\ \E k \in DOMAIN a : a[k] < b[k] /\ \A m \in 1..(k - 1) : a[m] = b[m]

\* C19. find_file_pairs lists the videos in natural order (segment 10 after
\* the segments 2 and 9) and pairs each with the log path of the same base
\* name; main() takes the pairs in that order, so the rows of an earlier file
\* precede the rows of a later file in the table.
C19_NaturalOrderAndPairing ==
    /\ pc \in {"loop", "primary", "fallback", "finalized"} => Len(file_pairs) = nFiles
    /\ \A i \in DOMAIN file_pairs :
          /\ file_pairs[i][1].ext = "mp4"
          /\ file_pairs[i][2] = FileName(file_pairs[i][1].stem, "txt")
          /\ \A j \in DOMAIN file_pairs :
                i < j => NaturallyBefore(file_pairs[i][1].stem, file_pairs[j][1].stem)
    /\ \A k \in DOMAIN attempts : attempts[k].file = k
    /\ \A i, j \in DOMAIN all_frame_data :
          i < j => all_frame_data[i].file <= all_frame_data[j].file
    /\ csvFile.exists => csvFile.rows = all_frame_data

\* the segments 10, 2 and 9 are processed as 2, 9, 10, and the table holds
\* rows of the first and of the last of them
C19_Witness ==
    /\ pc = "finalized"
    /\ Len(file_pairs) = 3
    /\ file_pairs[1][1].stem = <<2>>
    /\ file_pairs[2][1].stem = <<9>>
    /\ file_pairs[3][1].stem = <<1, 0>>
    /\ csvFile.exists
    /\ \E i, j \in DOMAIN csvFile.rows : csvFile.rows[i].file = 1 /\ csvFile.rows[j].file = 3

\* C18. If the output writer opens with neither the primary codec nor the one
\* retry with the other codec and container, the failure is fatal to the
\* camera-day: no frame is counted and no table row is recorded after it.
C18_WriterInitFatal ==
    (video_writer.made /\ ~video_writer.opened) =>
        /\ video_writer.container = "avi"
        /\ fn = 0
        /\ all_frame_data = <<>>
        /\ csvFile = NoCsv

---------------------------------------------------------------------------
(* Properties of the sampler *)

\* the 2-minute buckets that hold at least one row of the log
Buckets(cts) == {BinOf(cts[i] + OffsetSeconds) : i \in DOMAIN cts}

\* the original index of the first row of a bucket
FirstRowOfBucket(cts, b) == SetMin({i \in DOMAIN cts : BinOf(cts[i] + OffsetSeconds) = b}) - 1

\* C10. For every timestamp series the sampler returns exactly one sample per
\* non-empty bucket, the first row of that bucket, in ascending bucket order,
\* also when buckets between two non-empty buckets are empty.
C10_OneSamplePerBucket ==
    (sampled # NotCalled /\ series.kind = "rows") =>
        /\ ~sampled.raised
        /\ Len(sampled.frame_numbers) = Cardinality(Buckets(series.cts))
        /\ \A b \in Buckets(series.cts) :
              \E k \in DOMAIN sampled.frame_numbers :
                  sampled.frame_numbers[k] = FirstRowOfBucket(series.cts, b)

\* s is strictly increasing
StrictlyIncreasing(s) == \A i \in 1..(Len(s) - 1) : s[i] < s[i + 1]

\* C11. For every timestamp series the indices the sampler returns are
\* strictly increasing, each is the index of a row of the series, and the i-th
\* returned timestamp is the corrected capture time of the row with the i-th
\* returned index.
C11_SamplerMonotone ==
    (sampled # NotCalled /\ series.kind = "rows") =>
        /\ StrictlyIncreasing(sampled.frame_numbers)
        /\ \A k \in DOMAIN sampled.frame_numbers :
              /\ sampled.frame_numbers[k] \in 0..(Len(series.cts) - 1)
              /\ sampled.frame_dates[k] = Strftime(series.cts[sampled.frame_numbers[k] + 1] + OffsetSeconds)

\* the time between the earliest and the latest row of a series
Span(cts) == SetMax(Range(cts)) - SetMin(Range(cts))

\* C12. A non-empty series whose total time span is shorter than one interval
\* yields exactly one sample, its first row (original index 0), wherever the
\* series lies relative to the interval boundaries; an empty series yields
\* zero samples.
C12_ShortSeriesOneSample ==
    sampled # NotCalled =>
        /\ (series.kind = "rows" /\ NonDecreasing(series.cts) /\ Span(series.cts) < IntervalSeconds) =>
              (~sampled.raised /\ sampled.frame_numbers = <<0>>)
        /\ series = EmptyLog => (~sampled.raised /\ sampled.frame_numbers = <<>>)

\* C13. For the log with rows at 00:00:00, 00:01:30, 00:02:10 and 00:04:05 and
\* the 2-minute interval, the samples returned include the rows 0 and 2 and
\* not the row 1.
C13_SamplingScenario ==
    (sampled # NotCalled /\ series = ScenarioLog) =>
        /\ ~sampled.raised
        /\ 0 \in Range(sampled.frame_numbers)
        /\ 2 \in Range(sampled.frame_numbers)
        /\ 1 \notin Range(sampled.frame_numbers)

\* the seconds a formatted time stands for
Seconds(d) == d[1] * 86400 + d[2] * 3600 + d[3] * 60 + d[4]

\* C14. The rows of a log are numbered 0..N-1 in file order; the frame_date
\* of a sample is the raw capture time of its row plus 1 h 59 min 59 s,
\* formatted; the shift is the same for every row, so the reported times keep
\* the order of the rows and the differences between their raw times.
C14_OffsetAndNumbering ==
    (sampled # NotCalled /\ series.kind = "rows" /\ ~sampled.raised) =>
        /\ Len(sampled.frame_dates) = Len(sampled.frame_numbers)
        /\ (NonDecreasing(series.cts) /\ sampled.frame_numbers # <<>>) => sampled.frame_numbers[1] = 0
        /\ \A k \in DOMAIN sampled.frame_numbers :
              /\ sampled.frame_numbers[k] \in 0..(Len(series.cts) - 1)
              /\ Seconds(sampled.frame_dates[k]) = series.cts[sampled.frame_numbers[k] + 1] + 7199
              /\ \A l \in DOMAIN sampled.frame_numbers :
                    Seconds(sampled.frame_dates[k]) - Seconds(sampled.frame_dates[l])
                        = series.cts[sampled.frame_numbers[k] + 1] - series.cts[sampled.frame_numbers[l] + 1]

\* the rows at 00:00:00, 00:00:00 and 00:00:01 give the samples 0 and 2,
\* reported at 01:59:59 and 02:00:00
C14_Witness ==
    /\ series.cts = <<0, 0, 1>>
    /\ sampled.frame_numbers = <<0, 2>>
    /\ sampled.frame_dates = << <<0, 1, 59, 59>>, <<0, 2, 0, 0>> >>

---------------------------------------------------------------------------
(* Properties of one extractor call *)

\* the elements of a set of numbers in ascending order
AscSeq(S) == CHOOSE s \in [1..Cardinality(S) -> S] : \A i \in 1..(Cardinality(S) - 1) : s[i] < s[i + 1]

\* the original indices of the samples whose read decoded a frame: the k-th
\* read is the read of the k-th smallest index
DecodedSamples == {AscSeq(Range(job.nums))[k] : k \in {i \in DOMAIN job.outs : job.outs[i] = "ok"}}

\* C15. The primary extractor takes its samples in ascending original index;
\* a failed decode skips the sample and the later samples are still read; the
\* call returns fn_in + d and exactly d records numbered fn_in, ..., fn_in+d-1
\* in sample order, each with the timestamp of its own sample, d being the
\* number of reads that decoded a frame.
C15_PrimaryRecords ==
    (job.op = "primary" /\ done # NotRun) =>
        LET d == Cardinality(DecodedSamples)
        IN  /\ done.fn = job.fnIn + d
            /\ Len(done.frame_data) = d
            /\ \A k \in 1..d :
                  /\ done.frame_data[k].frame_number = job.fnIn + k - 1
                  /\ done.frame_data[k].idx = AscSeq(DecodedSamples)[k]
                  /\ done.frame_data[k].frame_date = DateOf(done.frame_data[k].idx)

\* the samples 5 and 1 are read as 1 then 5; the read of 1 fails, the read of
\* 5 decodes and becomes the record 7
C15_Witness ==
    /\ job.op = "primary"
    /\ job.nums = <<5, 1>>
    /\ job.outs = <<"fail", "ok">>
    /\ job.fnIn = 7
    /\ done.how = "completed"
    /\ done.fn = 8
    /\ Len(done.frame_data) = 1
    /\ done.frame_data[1].idx = 5

\* round(fps * 60 * interval_minutes), fps in hundredths
RoundedStride(video) == (video.fpsCenti * 60 * IntervalMinutes + 50) \div 100

\* 0, stride, 2*stride, ... below total
Multiples(stride, total) == {i \in 0..(total - 1) : i % stride = 0}

\* the fallback call reached its loop
FallbackRan == job.op = "fallback" /\ done # NotRun /\ done.how \in {"caught", "completed"}

\* C16. For every video with a positive frame rate the fallback's stride is
\* round(fps * 60 * interval_minutes), also when the product has a fractional
\* part of 0.5 or more, and the frame indices it reads are exactly
\* 0, stride, 2*stride, ... below total_frames.
C16_StrideIsRounded ==
    FallbackRan =>
        LET expected == Multiples(RoundedStride(job.video), job.video.total)
            got == {done.frame_data[k].idx : k \in DOMAIN done.frame_data}
        IN  /\ got \subseteq expected
            /\ (\A i \in DOMAIN job.outs : job.outs[i] = "ok") => got = expected

\* every read of the call decoded a frame
AllDecoded == \A i \in DOMAIN job.outs : job.outs[i] = "ok"

\* int(fps * 60 * interval_minutes), fps in hundredths
TruncatedStride(video) == (video.fpsCenti * 120) \div 100

\* C17 as claimed. A fallback on a video with fps > 0 and total_frames > 0
\* yields floor(total_frames / stride) + 1 records when every read decodes,
\* also when total_frames is an exact multiple of the stride, each with
\* frame_date 'missing'.
C17_FloorPlusOne ==
    (FallbackRan /\ AllDecoded) =>
        /\ Len(done.frame_data) = (job.video.total \div TruncatedStride(job.video)) + 1
        /\ \A k \in DOMAIN done.frame_data : done.frame_data[k].frame_date = Missing

\* C17 as amended. A fallback that reaches its loop yields one record per
\* read that decodes, the k-th read being the frame (k-1)*stride with
\* stride = int(fps * 60 * interval_minutes); when every read decodes these
\* are ceil(total_frames / stride) records, which is
\* floor(total_frames / stride) + 1 unless total_frames is an exact multiple
\* of the stride; every record has frame_date 'missing'.
C17_FallbackRecords ==
    FallbackRan =>
        LET stride == TruncatedStride(job.video)
            total == job.video.total
            oks == {i \in DOMAIN job.outs : job.outs[i] = "ok"}
        IN  /\ Len(done.frame_data) = Cardinality(oks)
            /\ done.fn = job.fnIn + Cardinality(oks)
            /\ \A k \in DOMAIN done.frame_data :
                  /\ done.frame_data[k].frame_date = Missing
                  /\ done.frame_data[k].idx = (AscSeq(oks)[k] - 1) * stride
            /\ AllDecoded =>
                  /\ Len(done.frame_data) = (total + stride - 1) \div stride
                  /\ Len(done.frame_data) = IF total % stride = 0 THEN total \div stride
                                                                 ELSE (total \div stride) + 1

\* 7200 frames at 30 fps, an exact multiple of the stride 3600: the frames 0
\* and 3600 are read and decode, two records
C17_Witness ==
    /\ FallbackRan
    /\ job.video = Video(TRUE, 640, 480, 3000, 7200)
    /\ job.outs = <<"ok", "ok">>
    /\ Len(done.frame_data) = 2
    /\ done.frame_data[2].idx = 3600
    /\ done.frame_data[2].frame_date = Missing

---------------------------------------------------------------------------
(* Properties of the renaming *)

\* the file name ends in the suffix 0 and the video extension
CarriesSuffix0(path) ==
    LET name == NameOf(path)
    IN  Len(name) >= 2 /\ name[Len(name) - 1] = "_0" /\ name[Len(name)] = ".mp4"

\* the path with the piece before its extension taken out
DropSuffix0(path) == SubSeq(path, 1, Len(path) - 2) \o <<".mp4">>

\* C20. rename_mp4_files renames every video whose name carries the suffix 0
\* right before the extension to the name without that suffix, changing
\* nothing else, and leaves every other entry unrenamed: a video ending in
\* _10.mp4, a video with the suffix elsewhere in its name or path, a
\* non-video file.
C20_OnlySuffix0Renamed ==
    renamed.visited =>
        IF entry.is_file /\ CarriesSuffix0(entry.path)
        THEN renamed.renamed /\ renamed.to = DropSuffix0(entry.path)
        ELSE ~renamed.renamed /\ renamed.to = entry.path

---------------------------------------------------------------------------
(* The File Normalizer over a directory *)

HasLog(msg) == \E i \in 1..Len(norm.log) : norm.log[i].msg = msg

\* C21. When the directory holds cam_0.mp4 and cam_1.mp4, the normalizer
\* leaves as canonical cam.mp4 the content of cam_1.mp4 if its byte size is
\* strictly larger than that of the renamed cam_0.mp4 and the content of
\* cam_0.mp4 otherwise, and it logs which file won.
C21_Suffix1ReplacesWhenLarger ==
    (norm.op = "rename" /\ norm.runs = 1 /\ NamesOf(norm.first) = {<<0>>, <<1>>}) =>
        LET s0 == FileAt(norm.first, <<0>>).size
            s1 == FileAt(norm.first, <<1>>).size
        IN  /\ <<>> \in NamesOf(folder)
            /\ FileAt(folder, <<>>).content = (IF s1 > s0 THEN << <<1>> >> ELSE << <<0>> >>)
            /\ HasLog("won")

\* C22. A second run of the normalizer over a directory renames nothing and
\* leaves the set of file names as the first run left it.
C22_SecondRunRenamesNothing ==
    (norm.op = "rename" /\ norm.runs = 2) =>
        /\ norm.log = <<>>
        /\ NamesOf(folder) = NamesOf(norm.prev)

\* the split groups of a directory that have at least two parts, by base
SplitParts(F, base) == {n \in NamesOf(F) : IsSplitPart(n) /\ Front(n) = base}

SplitBases(F) == {Front(n) : n \in {m \in NamesOf(F) : IsSplitPart(m)}}

Reassembled(F) == {b \in SplitBases(F) : Cardinality(SplitParts(F, b)) >= 2}

\* the parts of a group in ascending numeric order of N
Ascending(S) == OrderBy(S, [n \in S |-> Last(n)])

\* C23. After concat_videos has run with a working concatenation tool, every
\* split group of at least two parts is concatenated in ascending numeric
\* order of N into <base> and none of its parts exists; every other file is
\* untouched and no other file has been created.
C23_SplitReassembly ==
    (norm.op = "concat" /\ norm.runs = 1 /\ norm.tool = "ok" /\ ~norm.raised) =>
        LET F == norm.first
        IN  /\ \A b \in Reassembled(F) :
                 /\ b \in NamesOf(folder)
                 /\ FileAt(folder, b).content = ConcatContent(F, Ascending(SplitParts(F, b)))
                 /\ SplitParts(F, b) \cap NamesOf(folder) = {}
            /\ \A f \in F :
                 (f.name \notin Reassembled(F) /\ ~(IsSplitPart(f.name) /\ Front(f.name) \in Reassembled(F)))
                    => f \in folder
            /\ NamesOf(folder) \subseteq NamesOf(F) \cup Reassembled(F)

\* C24. When the concatenation of a split group fails, because the tool
\* reports an error or cannot be run, every original file is still on disk
\* unchanged, the failure is logged, no list file is left, every split group
\* has been taken up, and concat_videos returns.
C24_ConcatFailureIsSoft ==
    (norm.op = "concat" /\ norm.runs = 1 /\ norm.tool \in {"error", "missing"}
        /\ Reassembled(norm.first) # {}) =>
        /\ norm.first \subseteq folder
        /\ HasLog("error")
        /\ norm.lists = {}
        /\ \A b \in Reassembled(norm.first) :
             \E i \in 1..Len(norm.log) : norm.log[i] = LogEntry("concatenating", b)
        /\ ~norm.raised

---------------------------------------------------------------------------
(* main() over the list of cameras *)

\* C25. Whatever fails for one camera, main() still reaches every other
\* camera of the list: when main() has ended, both loops have taken up
\* every camera.
C25_NoGlobalAbort ==
    progress.loop \in {"done", "aborted"} =>
        /\ Len(progress.exported) = Len(cams)
        /\ Len(progress.handled) = Len(cams)

\* C27. The transfer collaborator is invoked only if the output video and
\* the table exist; it is invoked for every camera-day run that opened a
\* writer, in either container, and extracted at least one frame; and a
\* transfer that fails raises to main().
C27_TransferPrecondition ==
    \A i \in 1..Len(progress.handled) :
        LET h == progress.handled[i]
        IN  /\ h.invoked # <<>> => (OutputVideoExists(h.out) /\ TableExists(h.out))
            /\ (h.out.writer \in {"mp4", "avi"} /\ h.out.rows > 0) => h.invoked # <<>>
            /\ (h.invoked # <<>> /\ h.rsync # "ok") => h.caught

---------------------------------------------------------------------------
(* The reads of the extractors *)

\* the reads of the call that returned no frame
FailedReads == {k \in DOMAIN job.outs : job.outs[k] \in {"fail", "fail_skip"}}

\* the frame index the k-th read of the call is for
ReadIndex(k) ==
    IF job.op = "primary" THEN AscSeq(Range(job.nums))[k]
    ELSE (k - 1) * frames_per_interval(job.video)

Warned(file, idx) == \E i \in DOMAIN done.warned : done.warned[i] = [file |-> file, idx |-> idx]

\* C26. Every read of a sample that returns no frame, in the primary and in
\* the fallback extractor, leaves a log entry naming the source file and the
\* frame index.
C26_DecodeFailuresLogged ==
    (done # NotRun /\ done.how \in {"completed", "caught"}) =>
        \A k \in FailedReads : Warned(1, ReadIndex(k))

\* C30. Every frame the primary extractor decodes and hands to the writer
\* is the frame at the original index of the sample its record is made for,
\* also when the sample follows a sample whose read failed.
C30_WrittenFrameIsSampleFrame ==
    (job.op = "primary" /\ done # NotRun /\ done.video_writer.opened) =>
        /\ Len(done.frames) = Len(done.frame_data)
        /\ \A k \in DOMAIN done.frames : done.frames[k].idx = done.frame_data[k].idx

---------------------------------------------------------------------------
(* The writer and the two paths over a camera-day *)

NoFirst == <<NoSize, NoSize>>

\* C28. Within a camera-day run the writer is created at most once, and the
\* frame size main() holds and the writer has is the size of the first video
\* a call opened: no later file pair, through either path, replaces the
\* writer or changes the size.
C28_WriterAndSizeFixed ==
    /\ stats.created <= 1
    /\ video_writer.made <=> stats.created = 1
    /\ stats.first = NoFirst => (frame_width = NoSize /\ frame_height = NoSize /\ ~video_writer.made)
    /\ stats.first # NoFirst =>
          /\ frame_width = stats.first[1]
          /\ frame_height = stats.first[2]
          /\ video_writer.made
          /\ video_writer.w = stats.first[1]
          /\ video_writer.h = stats.first[2]

\* the writer was opened for the 640x480 video of the first file pair; the
\* second pair's video has another size: its rows are there, the writer has
\* dropped its frames, and the writer and the size are those of the first
C28_Witness ==
    /\ pc = "loop"
    /\ fileIdx = 2
    /\ video_writer.opened
    /\ stats.created = 1
    /\ stats.first = <<640, 480>>
    /\ frame_width = 640
    /\ \E k \in DOMAIN outVideo : outVideo[k].file = 1
    /\ \E k \in DOMAIN all_frame_data : all_frame_data[k].file = 2
    /\ ~\E k \in DOMAIN outVideo : outVideo[k].file = 2

FramesOfFile(i) == {k \in DOMAIN outVideo : outVideo[k].file = i}

RowIndicesOfFile(i) == {k \in DOMAIN all_frame_data : all_frame_data[k].file = i}

\* C29. A file pair contributes through one path only: after a primary call
\* that put a frame of the file into the output video no fallback call is
\* made for the file; no file has rows of both paths, nor rows with a real
\* timestamp next to rows with 'missing'; no source frame is in the output
\* video twice; and every frame in the output video has its table row, also
\* when the call that wrote it ended on an exception.
C29_OnePathPerFile ==
    /\ \A j, k \in DOMAIN calls :
          (j < k /\ calls[j].op = "primary" /\ calls[j].frames > 0) => calls[k].op # "fallback"
    /\ \A i \in 1..nFiles :
          /\ \A a, b \in RowIndicesOfFile(i) :
                /\ all_frame_data[a].path = all_frame_data[b].path
                /\ (all_frame_data[a].frame_date = Missing) = (all_frame_data[b].frame_date = Missing)
          /\ Cardinality(FramesOfFile(i)) <= Cardinality(RowIndicesOfFile(i))
    /\ \A a, b \in DOMAIN outVideo : a # b => outVideo[a] # outVideo[b]

\* the first file pair went through the fallback and has a 'missing' row;
\* the primary call of the second wrote a frame and then ended on an
\* exception of its loop: its row is in the table and no fallback was run
C29_Witness ==
    /\ pc = "loop"
    /\ fileIdx = 2
    /\ LastCall.op = "primary"
    /\ LastCall.how = "caught"
    /\ LastCall.frames > 0
    /\ \E k \in RowIndicesOfFile(1) : all_frame_data[k].frame_date = Missing
    /\ \E k \in RowIndicesOfFile(2) : all_frame_data[k].path = "primary"
    /\ FramesOfFile(2) # {}

===========================================================================
